---- MODULE Spec2Model ----
(***************************************************************************)
(* Model of binance_crypto_downloader.py: BinanceCryptoDownloaderV2.       *)
(*                                                                         *)
(* A candle is represented by its timestamp (row[0] of an OHLCV row); the  *)
(* other five columns are carried through unchanged by the code and are    *)
(* not modelled.  Time is counted in ticks; a day has DayTicks ticks and   *)
(* the code's "+ 1" on the cursor is one tick.  The 'time' column of the   *)
(* data frame is the timestamp column under pd.to_datetime, which keeps    *)
(* the order, so a data frame is modelled by its sequence of timestamps.   *)
(***************************************************************************)
EXTENDS Integers, Sequences, FiniteSets, TLC

\* ---------------------------------------------------------------- bounds
\* Largest candle timestamp the exchange can hold in Spec.
MaxTs == 5
\* Largest candle timestamp the exchange can hold in LaxSpec.
LaxMaxTs == 2
\* Ticks per day (stands for 86 400 000 ms).
DayTicks == 2
\* Dates are day numbers 0..MaxDay.
MaxDay == 2
\* Longest symbol list handed to batch_download in BatchSpec.
MaxSymbols == 2
\* Largest candle timestamp the exchange can hold in BatchSpec.
BatchMaxTs == 1
\* Largest candle timestamp the exchange can hold in RetrySpec.
RetryMaxTs == 2
\* The batch size: stands for limit=1000 of fetch_ohlcv and the test
\* len(ohlcv) < 1000.
BatchLimit == 2

\* ------------------------------------------------------ program constants
\* max_retries=3 of download_crypto.
max_retries == 3
\* consecutive_errors > 3 aborts the attempt.
MaxConsecutiveErrors == 3
\* wait_time = (attempt + 1) * 5.
BackoffUnit == 5

\* Python's None where the code holds a date or a timestamp (end_date,
\* end_ts), which are never negative here.
None == 0 - 1

\* self.exchange = None
NoExchange == "None"

\* A data frame, or the None that download_crypto returns instead of one.
NoFrame == [isNone |-> TRUE, rows |-> << >>]
Frame(rows) == [isNone |-> FALSE, rows |-> rows]

\* self.exchange_options, in list order.
exchange_options == << "direct", "proxy" >>

Symbols == { "BTC/USDT", "FAKE/XXX" }

Days == 0..MaxDay

\* exchange.parse8601(f'{start_date}T00:00:00Z')
ParseStart(d) == d * DayTicks

\* exchange.parse8601(f'{end_date}T23:59:59Z'), or None without end_date
ParseEnd(d) == IF d = None THEN None ELSE d * DayTicks + (DayTicks - 1)

\* symbol.replace('/', '')
CoinName(symbol) ==
    CASE symbol = "BTC/USDT" -> "BTCUSDT"
      [] symbol = "FAKE/XXX" -> "FAKEXXX"

\* What fetch_ohlcv can return from an exchange holding candles at the
\* timestamps S: any list of at most BatchLimit of them.
Batches(S) == UNION { [1..n -> S] : n \in 0..BatchLimit }

\* Lists of at most n symbols for batch_download.
SymbolLists(n) == UNION { [1..k -> Symbols] : k \in 0..n }

Last(s) == s[Len(s)]

StrictlyAscending(s) == \A k \in 1..(Len(s) - 1) : s[k] < s[k + 1]

\* The exchange's contract for one batch requested at cursor c.
Conforming(b, c) == StrictlyAscending(b) /\ \A k \in 1..Len(b) : b[k] >= c

TimeLess(a, b) == a < b

\* df.sort_values('time').reset_index(drop=True)
SortValues(rows) == SortSeq(rows, TimeLess)

\* Python truthiness of end_ts in "if end_ts and since >= end_ts".
Truthy(x) == x # None /\ x # 0

VARIABLES
    pc,                  \* where the process is
    optionIdx,           \* _init_exchange: index of the option being tried
    exchange,            \* self.exchange: option whose client is held, or None
    probed,              \* history: the fetch_ticker probes (option, outcome)
    symbols,             \* batch_download: symbols
    start_date,          \* batch_download: start_date
    end_date,            \* batch_download: end_date
    i,                   \* batch_download: enumerate index (from 1)
    results,             \* batch_download: results
    attempt,             \* download_crypto: attempt
    since,               \* _download_with_retry: since (the cursor)
    end_ts,              \* _download_with_retry: end_ts
    all_ohlcv,           \* _download_with_retry: all_ohlcv
    consecutive_errors,  \* _download_with_retry: consecutive_errors
    df,                  \* download_and_save: df
    csv,                 \* history: the to_csv calls made (frame, outcome)
    waits,               \* history: time.sleep(wait_time) of this download_crypto
    pauses,              \* history: number of time.sleep(2) between symbols
    resp,                \* history: the last fetch_ohlcv call and its outcome
    kept,                \* history: every batch of this attempt kept the
                         \* exchange's contract
    got,                 \* history: the candles fetch_ohlcv returned in this
                         \* attempt
    retried,             \* history: requests of this download_crypto made
                         \* right after one that raised, in the same attempt
    accepted,            \* history: non-empty batches of this download_crypto
    metered,             \* whether retried and accepted are recorded
    held,                \* exchange: timestamps of the candles it holds
    lax                  \* exchange: it may still return one batch that
                         \* breaks its contract

vars == << pc, optionIdx, exchange, probed, symbols, start_date, end_date, i,
           results, attempt, since, end_ts, all_ohlcv, consecutive_errors,
           df, csv, waits, pauses, resp, kept, got, retried, accepted,
           metered, held, lax >>

\* resp: kind is the outcome of the last fetch_ohlcv call ("error" when it
\* raised, "batch" when it returned), batch what it returned, cursor the
\* since it was called with, before the number of calls that raised right
\* before it in the same attempt, run that number including this call, and
\* attempt the attempt that made it.
NoResp == [kind |-> "none", batch |-> << >>, cursor |-> 0, before |-> 0,
           run |-> 0, attempt |-> 0]

\* State after lines 22-46 have set exchange_options and exchange = None,
\* before _init_exchange runs.  symbols, start_date and end_date are the
\* arguments main will give batch_download.
InitWith(lists, stamps, mayBreak, meter) ==
    /\ pc = "init"
    /\ optionIdx = 1
    /\ exchange = NoExchange
    /\ probed = << >>
    /\ symbols \in lists
    /\ start_date \in Days
    /\ end_date \in Days \cup {None}
    /\ i = 1
    /\ results = << >>
    /\ attempt = 0
    /\ since = 0
    /\ end_ts = None
    /\ all_ohlcv = << >>
    /\ consecutive_errors = 0
    /\ df = NoFrame
    /\ csv = << >>
    /\ waits = << >>
    /\ pauses = 0
    /\ resp = NoResp
    /\ kept = TRUE
    /\ got = << >>
    /\ retried = 0
    /\ accepted = 0
    /\ metered = meter
    /\ held = stamps
    /\ lax = mayBreak

\* One symbol at most, against an exchange that keeps its contract: every
\* batch is strictly ascending and holds no candle older than the cursor.
Init == InitWith(SymbolLists(1), 0..MaxTs, FALSE, FALSE)

\* One symbol at most, against an exchange that holds fewer candles and
\* breaks its contract in one batch at most, which can be any list.
LaxInit == InitWith(SymbolLists(1), 0..LaxMaxTs, TRUE, FALSE)

\* Several symbols, against an exchange that holds few candles and keeps
\* its contract.
BatchInit == InitWith(SymbolLists(MaxSymbols), 0..BatchMaxTs, FALSE, FALSE)

\* One symbol at most, against an exchange that holds few candles and keeps
\* its contract, with the retried requests and the accepted batches of
\* each download_crypto counted.
RetryInit == InitWith(SymbolLists(1), 0..RetryMaxTs, FALSE, TRUE)

fetchVars == << attempt, since, end_ts, all_ohlcv, consecutive_errors, df,
                waits, resp, kept, got, retried, accepted, metered, held,
                lax >>
batchVars == << symbols, start_date, end_date, i, results, csv, pauses >>
connVars == << optionIdx, exchange, probed >>

\* A failed probe of the last option followed by main all the same.
AfterFailedProbeNoExit(k) ==
    IF k = Len(exchange_options) THEN "main" ELSE "init"

\* Where a failed probe of option k leads: continue with the next option,
\* exit(1) after the last one.
AfterFailedProbe(k) ==
    IF k = Len(exchange_options) THEN "exit" ELSE "init"

\* One iteration of the for loop of _init_exchange: build the client, probe
\* it with fetch_ticker; return on success, go on to the next option on
\* failure, exit(1) after the last one.
InitExchange ==
    /\ pc = "init"
    /\ exchange' = exchange_options[optionIdx]
    /\ \E ok \in BOOLEAN :
         /\ probed' = Append(probed, [option |-> exchange_options[optionIdx],
                                      ok |-> ok])
         /\ IF ok
            THEN /\ pc' = "main"
                 /\ optionIdx' = optionIdx
            ELSE /\ optionIdx' = optionIdx + 1
                 /\ pc' = AfterFailedProbe(optionIdx)
    /\ UNCHANGED << fetchVars, batchVars >>

\* main(): ask for confirmation, then call batch_download (lines 196-198).
Main ==
    /\ pc = "main"
    /\ \E confirm \in BOOLEAN :
         IF confirm
         THEN /\ pc' = "loop"
              /\ i' = 1
              /\ results' = << >>
         ELSE /\ pc' = "cancelled"
              /\ UNCHANGED << i, results >>
    /\ UNCHANGED << connVars, fetchVars, symbols, start_date, end_date, csv,
                    pauses >>

\* The accumulator left as the previous attempt had it.
FreshRowsLeftOver(rows) == rows

\* all_ohlcv = [] at the start of _download_with_retry, rows being what a
\* previous attempt had accumulated.
FreshRows(rows) == << >>

\* The loop stopping one symbol early.
MoreSymbolsButLast(k, syms) == k < Len(syms)

\* for i, symbol in enumerate(symbols, 1): whether there is an i-th symbol.
MoreSymbols(k, syms) == k <= Len(syms)

\* Head of the for loop of batch_download: the next symbol enters
\* download_and_save, download_crypto and _download_with_retry, which sets
\* its locals; after the last symbol the summary is printed and results is
\* returned.
NextSymbol ==
    /\ pc = "loop"
    /\ IF MoreSymbols(i, symbols)
       THEN /\ pc' = "fetch"
            /\ attempt' = 0
            /\ since' = ParseStart(start_date)
            /\ end_ts' = ParseEnd(end_date)
            /\ all_ohlcv' = FreshRows(all_ohlcv)
            /\ consecutive_errors' = 0
            /\ df' = NoFrame
            /\ waits' = << >>
            /\ resp' = NoResp
            /\ kept' = TRUE
            /\ got' = << >>
            /\ retried' = 0
            /\ accepted' = 0
       ELSE /\ pc' = "done"
            /\ UNCHANGED << attempt, since, end_ts, all_ohlcv,
                            consecutive_errors, df, waits, resp, kept, got,
                            retried, accepted >>
    /\ UNCHANGED << connVars, batchVars, metered, held, lax >>

\* Number of calls that raised right before the coming one, in this attempt.
ErrorsBefore ==
    IF resp.kind = "error" /\ resp.attempt = attempt THEN resp.run ELSE 0

\* retried once the coming request is made.
Retried == IF metered /\ ErrorsBefore > 0 THEN retried + 1 ELSE retried

\* An empty data frame in place of None.
ReturnFrameEmpty(rows) == Frame(SortValues(rows))

\* Lines 143-161 of _download_with_retry, after the while loop: None for no
\* candle, else the data frame sorted by time; download_crypto returns it.
ReturnFrame(rows) ==
    IF rows = << >> THEN NoFrame ELSE Frame(SortValues(rows))

\* The cursor set to the last timestamp itself.
NextSinceSame(ohlcv) == Last(ohlcv)

\* since = ohlcv[-1][0] + 1
NextSince(ohlcv) == Last(ohlcv) + 1

\* The comparison with > in place of >=.
EndReachedPast(end, cursor) == Truthy(end) /\ cursor > end

\* if end_ts and since >= end_ts
EndReached(end, cursor) == Truthy(end) /\ cursor >= end

\* The test one candle off.
ShortBatchOff(ohlcv) == Len(ohlcv) < BatchLimit - 1

\* if len(ohlcv) < 1000
ShortBatch(ohlcv) == Len(ohlcv) < BatchLimit

\* The counter left as it was.
ErrorsAfterBatchKept(errors) == errors

\* consecutive_errors = 0 after a non-empty batch
ErrorsAfterBatch(errors) == 0

\* An attempt that returned None tried again.
AfterAttemptRetryNone(frame) == IF frame.isNone THEN "fetch" ELSE "returned"

\* return self._download_with_retry(...): download_crypto returns what the
\* attempt returned, whatever it is.
AfterAttempt(frame) == "returned"

\* One iteration of the while loop in which fetch_ohlcv returns ohlcv
\* (try branch, lines 107-131), followed by lines 143-161 when it breaks.
FetchBatch ==
    /\ pc = "fetch"
    /\ \E ohlcv \in Batches(held) :
         /\ Conforming(ohlcv, since) \/ lax
         /\ lax' = (lax /\ Conforming(ohlcv, since))
         /\ kept' = (kept /\ Conforming(ohlcv, since))
         /\ got' = got \o ohlcv
         /\ retried' = Retried
         /\ accepted' = IF metered /\ ohlcv # << >> THEN accepted + 1
                        ELSE accepted
         /\ resp' = [kind |-> "batch", batch |-> ohlcv, cursor |-> since,
                     before |-> ErrorsBefore, run |-> 0, attempt |-> attempt]
         /\ IF ohlcv = << >>
            THEN /\ pc' = AfterAttempt(ReturnFrame(all_ohlcv))
                 /\ df' = ReturnFrame(all_ohlcv)
                 /\ UNCHANGED << all_ohlcv, consecutive_errors, since >>
            ELSE /\ all_ohlcv' = all_ohlcv \o ohlcv
                 /\ consecutive_errors' = ErrorsAfterBatch(consecutive_errors)
                 /\ since' = NextSince(ohlcv)
                 /\ IF EndReached(end_ts, since') \/ ShortBatch(ohlcv)
                    THEN /\ pc' = AfterAttempt(ReturnFrame(all_ohlcv'))
                         /\ df' = ReturnFrame(all_ohlcv')
                    ELSE /\ pc' = "fetch"
                         /\ df' = df
    /\ UNCHANGED << connVars, batchVars, attempt, end_ts, waits, metered,
                    held >>

\* The comparison with >= in place of >.
TooManyErrorsAtThree(errors) == errors >= MaxConsecutiveErrors

\* No error tolerated at all.
TooManyErrorsAtOnce(errors) == errors > 0

\* One more error tolerated.
TooManyErrorsAtFive(errors) == errors > MaxConsecutiveErrors + 1

\* The except branch never raising.
TooManyErrorsNever(errors) == FALSE

\* Whether the except branch raises: consecutive_errors > 3 after the
\* increment.
TooManyErrors(errors) == errors > MaxConsecutiveErrors

\* The comparison with max_retries in place of max_retries - 1.
RetryAllowedOnceMore(att) == att < max_retries

\* Whether download_crypto retries after a failed attempt:
\* attempt < max_retries - 1.
RetryAllowed(att) == att < max_retries - 1

\* The same wait before every retry.
WaitTimeFlat(att) == BackoffUnit

\* wait_time = (attempt + 1) * 5
WaitTime(att) == (att + 1) * BackoffUnit

\* The candles of the failed attempt handed back as its result.
GiveUpWithRows(rows) == ReturnFrame(rows)

\* What download_crypto returns once the last attempt has raised (line 91),
\* rows being the candles that attempt had accumulated.
GiveUp(rows) == NoFrame

\* One iteration of the while loop in which fetch_ohlcv raises (except
\* branch, lines 133-141).  When the branch raises in turn, the except
\* branch of download_crypto (lines 82-91) either sleeps and calls
\* _download_with_retry again, which sets its locals anew, or returns None.
FetchError ==
    /\ pc = "fetch"
    /\ resp' = [kind |-> "error", batch |-> << >>, cursor |-> since,
                before |-> ErrorsBefore, run |-> ErrorsBefore + 1,
                attempt |-> attempt]
    /\ retried' = Retried
    /\ accepted' = accepted
    /\ IF ~TooManyErrors(consecutive_errors + 1)
       THEN /\ consecutive_errors' = consecutive_errors + 1
            /\ pc' = "fetch"
            /\ UNCHANGED << attempt, since, end_ts, all_ohlcv, df, waits,
                            kept, got >>
       ELSE IF RetryAllowed(attempt)
            THEN /\ waits' = Append(waits, WaitTime(attempt))
                 /\ attempt' = attempt + 1
                 /\ since' = ParseStart(start_date)
                 /\ end_ts' = ParseEnd(end_date)
                 /\ all_ohlcv' = FreshRows(all_ohlcv)
                 /\ consecutive_errors' = 0
                 /\ pc' = "fetch"
                 /\ df' = df
                 /\ kept' = TRUE
                 /\ got' = << >>
            ELSE /\ df' = GiveUp(all_ohlcv)
                 /\ pc' = "returned"
                 /\ consecutive_errors' = consecutive_errors + 1
                 /\ UNCHANGED << attempt, since, end_ts, all_ohlcv, waits,
                                 kept, got >>
    /\ UNCHANGED << connVars, batchVars, metered, held, lax >>

\* download_and_save: if df is None, return False
FetchFailed(frame) == frame.isNone

\* save_data: if df is None or len(df) == 0, return False
NothingToSave(frame) == frame.isNone \/ Len(frame.rows) = 0

\* 'status': 'success' if success else 'failed'
Status(success) == IF success THEN "success" ELSE "failed"

\* A pause after the last symbol too.
PauseAfterEvery(k, syms) == k <= Len(syms)

\* if i < len(symbols): time.sleep(2)
PauseAfter(k, syms) == k < Len(syms)

\* The rest of download_and_save (lines 181-188) with save_data, then the
\* rest of the loop body of batch_download (lines 204-211).  to_csv either
\* writes the frame or raises; nothing catches what it raises, so the
\* process ends with the exception.  The locals of the calls that have
\* returned are gone.
SaveAndRecord ==
    /\ pc = "returned"
    /\ attempt' = 0
    /\ since' = 0
    /\ end_ts' = None
    /\ all_ohlcv' = << >>
    /\ consecutive_errors' = 0
    /\ df' = NoFrame
    /\ waits' = << >>
    /\ resp' = NoResp
    /\ kept' = TRUE
    /\ got' = << >>
    /\ retried' = 0
    /\ accepted' = 0
    /\ IF FetchFailed(df) \/ NothingToSave(df)
       THEN /\ results' = Append(results,
                            [symbol |-> symbols[i], status |-> Status(FALSE)])
            /\ pauses' = IF PauseAfter(i, symbols) THEN pauses + 1
                         ELSE pauses
            /\ i' = i + 1
            /\ pc' = "loop"
            /\ csv' = csv
       ELSE \E written \in BOOLEAN :
              IF written
              THEN /\ csv' = Append(csv, [index |-> i,
                                          file |-> CoinName(symbols[i]),
                                          rows |-> df.rows, raised |-> FALSE])
                   /\ results' = Append(results,
                            [symbol |-> symbols[i], status |-> Status(TRUE)])
                   /\ pauses' = IF PauseAfter(i, symbols) THEN pauses + 1
                                ELSE pauses
                   /\ i' = i + 1
                   /\ pc' = "loop"
              ELSE /\ csv' = Append(csv, [index |-> i,
                                          file |-> CoinName(symbols[i]),
                                          rows |-> df.rows, raised |-> TRUE])
                   /\ pc' = "crashed"
                   /\ UNCHANGED << results, pauses, i >>
    /\ UNCHANGED << connVars, symbols, start_date, end_date, metered, held,
                    lax >>

Next ==
    \/ InitExchange
    \/ Main
    \/ NextSymbol
    \/ FetchBatch
    \/ FetchError
    \/ SaveAndRecord

Spec == Init /\ [][Next]_vars

LaxSpec == LaxInit /\ [][Next]_vars

BatchSpec == BatchInit /\ [][Next]_vars

RetrySpec == RetryInit /\ [][Next]_vars

\* The process is sequential and every step of it ends (requests have a
\* timeout, sleeps are finite), so a step that can be taken is taken.
LiveSpec == Init /\ [][Next]_vars /\ WF_vars(Next)

\* ------------------------------------------------------------------ claims

\* C1: a series returned by a fetch whose batches were all strictly
\* ascending and held no candle older than the requested cursor is strictly
\* ascending by timestamp, hence without duplicate timestamps, whatever
\* errors and retries came before.
C1_StrictlyAscending ==
    (pc = "returned" /\ ~df.isNone /\ kept) => StrictlyAscending(df.rows)

\* C1 witness: a series of more than one batch returned by a retried fetch.
C1_Witness ==
    /\ pc = "returned"
    /\ ~df.isNone
    /\ kept
    /\ attempt > 0
    /\ Len(df.rows) > Len(resp.batch)
    /\ Len(resp.batch) > 0

\* C2: with an end_date, no candle of a returned series is later than the
\* inclusive end boundary.
C2_WithinEnd ==
    (pc = "returned" /\ ~df.isNone /\ end_ts # None)
        => \A k \in 1..Len(df.rows) : df.rows[k] <= end_ts

\* C3: the 4th consecutive error ends the attempt, so that no 5th request
\* follows in it; the third attempt so ended makes download_crypto return
\* None, there is no 4th attempt, and batch_download records 'failed'.
C3_State ==
    /\ attempt <= 2
    /\ resp.run <= 4
    /\ (resp.kind = "error" /\ resp.run = 4) =>
          \/ /\ resp.attempt < 2
             /\ attempt = resp.attempt + 1
             /\ pc = "fetch"
             /\ Len(waits) = attempt
          \/ /\ resp.attempt = 2
             /\ attempt = 2
             /\ pc = "returned"
             /\ df.isNone

C3_Step ==
    (pc = "returned" /\ df.isNone) =>
        /\ results' = Append(results,
                             [symbol |-> symbols[i], status |-> "failed"])
        /\ csv' = csv

C3_AbortOnFourthError == []C3_State /\ [][C3_Step]_vars

\* C3 witness: the third attempt has ended on its 4th consecutive error.
C3_Witness ==
    /\ pc = "returned"
    /\ df.isNone
    /\ resp.kind = "error"
    /\ resp.run = 4
    /\ attempt = 2
    /\ Len(waits) = 2

\* C4: up to 3 consecutive errors leave the attempt running, and a request
\* that succeeds after exactly 3 errors is handled in the same attempt, with
\* no whole-fetch retry; its candles are in the series the attempt returns.
C4_State ==
    (resp.kind = "error" /\ resp.run <= 3) =>
        /\ pc = "fetch"
        /\ attempt = resp.attempt
        /\ Len(waits) = attempt

C4_Step ==
    (pc = "fetch" /\ ErrorsBefore = 3 /\ resp'.kind = "batch") =>
        /\ attempt' = attempt
        /\ waits' = waits
        /\ \/ /\ pc' = "fetch"
              /\ all_ohlcv' = all_ohlcv \o resp'.batch
           \/ /\ pc' = "returned"
              /\ df' = ReturnFrame(all_ohlcv \o resp'.batch)

C4_ThreeErrorsTolerated == []C4_State /\ [][C4_Step]_vars

\* C4 witness: a series returned by the first attempt, whose last request
\* succeeded after exactly 3 errors, past the first batch.
C4_Witness ==
    /\ pc = "returned"
    /\ ~df.isNone
    /\ attempt = 0
    /\ resp.kind = "batch"
    /\ resp.before = 3
    /\ Len(resp.batch) > 0
    /\ Len(df.rows) > Len(resp.batch)

\* C5: the result list follows the symbol list, entry by entry and in
\* order, and has its length when batch_download returns; a symbol whose
\* fetch is exhausted is recorded and the loop goes on to the next symbol,
\* whose fetch starts afresh; each status is decided by the symbol's own
\* fetch result.
C5_State ==
    /\ Len(results) <= Len(symbols)
    /\ \A k \in 1..Len(results) : results[k].symbol = symbols[k]
    /\ pc \in {"loop", "fetch", "returned", "crashed"} => Len(results) = i - 1
    /\ pc = "done" => Len(results) = Len(symbols)
    /\ (pc = "loop" /\ i <= Len(symbols)) => ENABLED NextSymbol

C5_Step ==
    /\ (pc = "returned" /\ df.isNone) =>
          /\ results' = Append(results,
                               [symbol |-> symbols[i], status |-> "failed"])
          /\ pc' = "loop"
          /\ i' = i + 1
    /\ (pc = "returned" /\ results' # results) =>
          results' = Append(results,
                [symbol |-> symbols[i],
                 status |-> IF df.isNone THEN "failed" ELSE "success"])
    /\ (pc = "loop" /\ i <= Len(symbols)) =>
          /\ pc' = "fetch"
          /\ attempt' = 0
          /\ all_ohlcv' = << >>
          /\ consecutive_errors' = 0
          /\ since' = ParseStart(start_date)
          /\ UNCHANGED << results, i >>

C5_OneResultPerSymbol == []C5_State /\ [][C5_Step]_vars

\* C5 witness: batch_download has returned two results, the first failed
\* and the second success.
C5_Witness ==
    /\ pc = "done"
    /\ Len(results) = 2
    /\ results[1].status = "failed"
    /\ results[2].status = "success"

\* C6: a to_csv call that raises is recorded as 'failed' for its symbol and
\* the batch goes on; the error does not leave batch_download.
C6_WriteErrorRecorded ==
    \A k \in 1..Len(csv) :
        csv[k].raised =>
            /\ pc # "crashed"
            /\ Len(results) >= csv[k].index
            /\ results[csv[k].index].status = "failed"

\* C7: the options are probed in list order, the first whose probe succeeds
\* is adopted and none is probed after it; when every probe fails the
\* process exits without any download request; the adopted connection is
\* never replaced or probed again.
C7_State ==
    /\ Len(probed) <= Len(exchange_options)
    /\ \A k \in 1..Len(probed) :
          /\ probed[k].option = exchange_options[k]
          /\ probed[k].ok => k = Len(probed)
    /\ pc = "init" => \A k \in 1..Len(probed) : ~probed[k].ok
    /\ pc \notin {"init", "exit"} =>
          /\ probed # << >>
          /\ Last(probed).ok
          /\ exchange = Last(probed).option
    /\ pc = "exit" =>
          /\ Len(probed) = Len(exchange_options)
          /\ \A k \in 1..Len(probed) : ~probed[k].ok
    /\ (probed = << >> \/ ~Last(probed).ok) =>
          /\ resp = NoResp
          /\ results = << >>
          /\ csv = << >>
          /\ pc \in {"init", "exit"}

C7_Step == pc # "init" => (exchange' = exchange /\ probed' = probed)

C7_FirstLiveConnectionKept == []C7_State /\ [][C7_Step]_vars

\* C7 witness: the second option was adopted after the first failed, and is
\* still held after a fetch that ended in request errors.
C7_Witness ==
    /\ pc = "returned"
    /\ resp.kind = "error"
    /\ Len(probed) = 2
    /\ ~probed[1].ok
    /\ exchange = exchange_options[2]

\* C8: a non-empty batch of fewer than BatchLimit candles is the last
\* request of its attempt: the loop ends with it, and its candles are in
\* the series returned.
C8_State ==
    (resp.kind = "batch" /\ Len(resp.batch) > 0
                        /\ Len(resp.batch) < BatchLimit) =>
        /\ pc = "returned"
        /\ ~df.isNone
        /\ Len(df.rows) = Len(all_ohlcv)
        /\ \A k \in 1..Len(resp.batch) :
              \E j \in 1..Len(df.rows) : df.rows[j] = resp.batch[k]

C8_Step ==
    (pc = "fetch" /\ resp'.kind = "batch" /\ Len(resp'.batch) > 0
                 /\ Len(resp'.batch) < BatchLimit) =>
        /\ pc' = "returned"
        /\ df' = Frame(SortValues(all_ohlcv \o resp'.batch))

C8_ShortBatchEndsLoop == []C8_State /\ [][C8_Step]_vars

\* C8 witness: a short batch that came after a full one, with no end_date.
C8_Witness ==
    /\ pc = "returned"
    /\ end_ts = None
    /\ resp.kind = "batch"
    /\ Len(resp.batch) > 0
    /\ Len(resp.batch) < BatchLimit
    /\ Len(df.rows) >= BatchLimit + Len(resp.batch)

\* C9: to_csv is called only once the symbol's fetch has returned a series,
\* with that whole series; never while the loop is running, never for a
\* fetch that gave up or returned nothing.
C9_State ==
    /\ \A k \in 1..Len(csv) :
          /\ csv[k].rows # << >>
          /\ csv[k].index <= i
          /\ pc \in {"fetch", "returned"} => csv[k].index < i
    /\ \A k \in 1..Len(results) :
          results[k].status = "failed" =>
              \A j \in 1..Len(csv) : csv[j].index # k

C9_Step ==
    csv' # csv =>
        /\ pc = "returned"
        /\ resp.kind = "batch"
        /\ all_ohlcv # << >>
        /\ \E raised \in BOOLEAN :
              csv' = Append(csv, [index |-> i, file |-> CoinName(symbols[i]),
                                  rows |-> SortValues(all_ohlcv),
                                  raised |-> raised])

C9_WriteAfterFetch == []C9_State /\ [][C9_Step]_vars

\* C9 witness: a series of more than one batch has been written.
C9_Witness ==
    /\ pc = "done"
    /\ csv # << >>
    /\ ~Last(csv).raised
    /\ Len(Last(csv).rows) > BatchLimit

\* C10: a request error within the tolerance changes neither the cursor nor
\* the accumulated candles, the next request is made at the same cursor,
\* and the candles accumulated in an attempt stay until it returns them.
IsPrefix(s, t) == Len(s) <= Len(t) /\ SubSeq(t, 1, Len(s)) = s

C10_Step ==
    /\ (pc = "fetch" /\ resp'.kind = "error" /\ ErrorsBefore < 3) =>
          /\ pc' = "fetch"
          /\ attempt' = attempt
          /\ since' = since
          /\ all_ohlcv' = all_ohlcv
    /\ (pc = "fetch" /\ resp.kind = "error" /\ resp.attempt = attempt
                     /\ resp' # resp) =>
          resp'.cursor = resp.cursor
    /\ (pc = "fetch" /\ attempt' = attempt) =>
          /\ IsPrefix(all_ohlcv, all_ohlcv')
          /\ (pc' = "returned" /\ ~df'.isNone) =>
                df'.rows = SortValues(all_ohlcv')

C10_ErrorKeepsCursorAndCandles == [][C10_Step]_vars

\* C10 witness: a request has just failed for the second time in a row at
\* the cursor that follows the candles accumulated so far.
C10_Witness ==
    /\ pc = "fetch"
    /\ resp.kind = "error"
    /\ resp.run = 2
    /\ resp.attempt = attempt
    /\ all_ohlcv # << >>
    /\ since = resp.cursor
    /\ since = Last(all_ohlcv) + 1

\* C11: one download_crypto call makes no more than 9 retried batch
\* requests, whatever the sequence of successes and failures.
C11_AtMostNineRetries == retried <= 9

\* C11 as amended: the retried requests of one download_crypto call number
\* at most 3 for each attempt started and each non-empty batch accepted,
\* hence at most 9 as long as no request has returned a candle.
C11_RetriesBounded ==
    /\ retried <= MaxConsecutiveErrors * (attempt + 1 + accepted)
    /\ attempt + 1 <= max_retries
    /\ accepted = 0 => retried <= 9

\* C11 witness: three attempts of four errors each, nine of them retries.
C11_Witness ==
    /\ pc = "returned"
    /\ metered
    /\ accepted = 0
    /\ retried = 9
    /\ resp.kind = "error"

\* C12: download_crypto makes at most 3 attempts; it sleeps 5 after the
\* first failed attempt and 10 after the second, not after the third, and
\* an attempt that returns ends the call with no further attempt or sleep.
C12_State ==
    /\ attempt <= 2
    /\ pc \in {"fetch", "returned"} =>
          /\ Len(waits) = attempt
          /\ \A k \in 1..Len(waits) : waits[k] = k * 5

C12_Step ==
    /\ (pc = "fetch" /\ attempt' # attempt) =>
          /\ resp'.kind = "error"
          /\ attempt' = attempt + 1
          /\ waits' = Append(waits, attempt' * 5)
          /\ pc' = "fetch"
    /\ (pc = "fetch" /\ pc' = "returned") =>
          /\ waits' = waits
          /\ attempt' = attempt
    /\ pc = "returned" => pc' \in {"loop", "crashed"}

C12_LinearBackoff == []C12_State /\ [][C12_Step]_vars

\* C12 witness: the third attempt has returned a series after sleeps of 5
\* and 10.
C12_Witness ==
    /\ pc = "returned"
    /\ ~df.isNone
    /\ attempt = 2
    /\ waits = << 5, 10 >>

\* C13: a fetch whose first batch is empty returns None, not an empty
\* frame, and the symbol is recorded as 'failed' with no to_csv call.
C13_Step ==
    /\ (pc = "fetch" /\ all_ohlcv = << >> /\ resp'.kind = "batch"
                     /\ resp'.batch = << >>) =>
          /\ pc' = "returned"
          /\ df' = NoFrame
    /\ (pc = "returned" /\ resp.kind = "batch" /\ all_ohlcv = << >>) =>
          /\ df.isNone
          /\ pc' = "loop"
          /\ results' = Append(results,
                               [symbol |-> symbols[i], status |-> "failed"])
          /\ csv' = csv

C13_EmptyFetchIsNone == [][C13_Step]_vars

\* C13 witness: an attempt has ended on an empty first batch.
C13_Witness ==
    /\ pc = "returned"
    /\ resp.kind = "batch"
    /\ resp.batch = << >>
    /\ all_ohlcv = << >>
    /\ df = NoFrame

\* C14: every symbol is attempted once, in one download_and_save call that
\* leaves one result, and the pause is made after every symbol but the
\* last: a run over n symbols ends with n results and n - 1 pauses, none
\* when n <= 1.
C14_State ==
    /\ i >= 1
    /\ pc \in {"loop", "fetch", "returned"} => Len(results) = i - 1
    /\ pauses = IF Len(results) < Len(symbols) THEN Len(results)
                ELSE IF Len(symbols) = 0 THEN 0 ELSE Len(symbols) - 1
    /\ pc = "done" =>
          /\ Len(results) = Len(symbols)
          /\ i = Len(symbols) + 1
          /\ pauses = IF Len(symbols) <= 1 THEN 0 ELSE Len(symbols) - 1

C14_Step ==
    /\ (pc = "loop" /\ pc' = "fetch") => (i' = i /\ results' = results)
    /\ (pc = "fetch") => (i' = i /\ results' = results /\ pauses' = pauses)
    /\ (pc = "returned" /\ pc' = "loop") =>
          /\ i' = i + 1
          /\ Len(results') = Len(results) + 1
          /\ results'[i].symbol = symbols[i]
          /\ pauses' = IF i < Len(symbols) THEN pauses + 1 ELSE pauses
    /\ pc = "done" => pc' = "done"

C14_OnceEachAndPauses == []C14_State /\ [][C14_Step]_vars

\* C14 witness: batch_download has returned from a list of at least two
\* symbols.
C14_Witness ==
    /\ pc = "done"
    /\ Len(symbols) >= 2
    /\ pauses = Len(symbols) - 1

\* C15: with an end timestamp, a batch whose last candle is at end_ts - 1
\* or later is the last request of its attempt, full or not.
C15_State ==
    (end_ts # None /\ resp.kind = "batch" /\ resp.batch # << >>
                  /\ Last(resp.batch) >= end_ts - 1) =>
        pc = "returned"

C15_Step ==
    (pc = "fetch" /\ end_ts # None /\ resp'.kind = "batch"
                 /\ resp'.batch # << >>
                 /\ Last(resp'.batch) >= end_ts - 1) =>
        /\ pc' = "returned"
        /\ df' = Frame(SortValues(all_ohlcv \o resp'.batch))
        /\ attempt' = attempt

C15_EndStopsLoop == []C15_State /\ [][C15_Step]_vars

\* C15 witness: a full batch ending exactly at end_ts - 1 has ended the
\* loop while the exchange holds later candles.
C15_Witness ==
    /\ pc = "returned"
    /\ end_ts # None
    /\ resp.kind = "batch"
    /\ Len(resp.batch) = BatchLimit
    /\ Last(resp.batch) = end_ts - 1
    /\ \E t \in held : t > end_ts

\* C16: every download_crypto call terminates: against an exchange that
\* holds finitely many candles and answers with candles at or after the
\* cursor, an attempt accumulates each candle at most once and tolerates
\* at most 3 errors in a row, there are at most 3 attempts, and a call
\* that has started returns.
C16_Bounded ==
    /\ attempt <= 2
    /\ pc = "fetch" => consecutive_errors <= 3
    /\ Len(all_ohlcv) <= Cardinality(held)
    /\ StrictlyAscending(all_ohlcv)

C16_Terminates == []C16_Bounded /\ ((pc = "fetch") ~> (pc = "returned"))

\* C16 witness: the third attempt has returned every candle the exchange
\* holds.
C16_Witness ==
    /\ pc = "returned"
    /\ attempt = 2
    /\ ~df.isNone
    /\ Len(df.rows) = Cardinality(held)

\* C17: in an attempt the cursor never decreases, and it increases with
\* every non-empty batch that holds no candle older than the cursor it was
\* requested at, so that no two such batches of an attempt are requested at
\* the same cursor.
NoneOlder(batch, cursor) == \A k \in 1..Len(batch) : batch[k] >= cursor

C17_State ==
    (pc \in {"fetch", "returned"} /\ resp.kind = "batch"
        /\ resp.batch # << >> /\ NoneOlder(resp.batch, resp.cursor)) =>
        since > resp.cursor

C17_Step ==
    (pc = "fetch" /\ attempt' = attempt
        /\ (resp'.kind = "batch" => NoneOlder(resp'.batch, since))) =>
        /\ since' >= since
        /\ (resp'.kind = "batch" /\ resp'.batch # << >>) => since' > since

C17_CursorAdvances == []C17_State /\ [][C17_Step]_vars

\* C17 witness: a non-empty batch was requested at a cursor already past
\* the start, and the cursor is past it again.
C17_Witness ==
    /\ pc \in {"fetch", "returned"}
    /\ kept
    /\ resp.kind = "batch"
    /\ resp.batch # << >>
    /\ resp.cursor > ParseStart(start_date)
    /\ since > resp.cursor

\* C18: every attempt starts from the start timestamp with no candle and
\* no error counted: what an attempt holds and returns is what fetch_ohlcv
\* returned in that very attempt.
C18_State ==
    /\ pc \in {"fetch", "returned"} => all_ohlcv = got
    /\ (pc = "returned" /\ ~df.isNone) => df.rows = SortValues(got)

C18_Step ==
    (pc = "fetch" /\ attempt' # attempt) =>
        /\ pc' = "fetch"
        /\ since' = ParseStart(start_date)
        /\ end_ts' = ParseEnd(end_date)
        /\ all_ohlcv' = << >>
        /\ consecutive_errors' = 0

C18_FreshAttempt == []C18_State /\ [][C18_Step]_vars

\* C18 witness: a later attempt has returned a series after an attempt
\* that had raised.
C18_Witness ==
    /\ pc = "returned"
    /\ attempt > 0
    /\ ~df.isNone
    /\ resp.kind = "batch"
    /\ resp.before > 0
    /\ df.rows = got

\* C19: consecutive_errors is the number of requests that raised since the
\* last non-empty batch of the attempt, 0 to 3 whenever a request is made;
\* a non-empty batch resets it, and an attempt is ended by an error only
\* when that error is the 4th in a row.
C19_State ==
    pc = "fetch" =>
        /\ consecutive_errors \in 0..3
        /\ consecutive_errors = ErrorsBefore

C19_Step ==
    /\ (pc = "fetch" /\ resp'.kind = "batch" /\ resp'.batch # << >>) =>
          /\ consecutive_errors' = 0
          /\ attempt' = attempt
    /\ (pc = "fetch" /\ resp'.kind = "error"
                     /\ (attempt' # attempt \/ pc' = "returned")) =>
          resp'.run = 4

C19_CounterResets == []C19_State /\ [][C19_Step]_vars

\* C19 witness: the first attempt has returned a series although more
\* than 3 of its requests were retries after an error.
C19_Witness ==
    /\ pc = "returned"
    /\ metered
    /\ attempt = 0
    /\ ~df.isNone
    /\ retried > 3

\* C20: only a raised attempt is retried: an attempt that ends without
\* error and without a candle makes download_crypto return None at once,
\* with no sleep and no further attempt.
C20_Step ==
    /\ (pc = "fetch" /\ resp'.kind = "batch" /\ resp'.batch = << >>
                     /\ all_ohlcv = << >>) =>
          /\ pc' = "returned"
          /\ df'.isNone
          /\ attempt' = attempt
          /\ waits' = waits
    /\ (pc = "fetch" /\ (attempt' # attempt \/ waits' # waits)) =>
          resp'.kind = "error"
    /\ pc = "returned" => pc' # "fetch"

C20_NoRetryOnEmpty == [][C20_Step]_vars

\* C20 witness: the first attempt has ended on an empty batch with nothing
\* accumulated, and no sleep was made.
C20_Witness ==
    /\ pc = "returned"
    /\ df.isNone
    /\ resp.kind = "batch"
    /\ resp.before = 0
    /\ attempt = 0
    /\ waits = << >>

====
